---- MODULE Spec2Model ----
(***************************************************************************)
(* Optimistic V3 relay server (rbuilder/src/mev_boost/optimistic_v3.rs):   *)
(* an LRU cache of block submissions fed by maintain_block_cache from a    *)
(* broadcast stream, and served by Handler::get_payload_v3 behind the warp *)
(* filter chain built in spawn_server.                                     *)
(***************************************************************************)
EXTENDS Integers, Sequences, FiniteSets, TLC

(* ------------------------------ bounds --------------------------------- *)

\* Capacity of the LruMap (ByLength limiter).  The source fixes it at 1_000;
\* the model runs the same code with a small capacity.
OPTIMISTIC_V3_CACHE_SIZE_DEFAULT == 2

(* ------------------------- program constants --------------------------- *)

OPTIMISTIC_V3_SERVER_CONTENT_LENGTH_LIMIT == 1024

\* Length of the fixed-size SSZ encoding of SignedGetPayloadV3:
\* 96 (signature) + 32 (block hash) + 8 (timestamp) + 48 (pubkey).
SSZ_REQUEST_LEN == 184

\* SystemTime::now() in milliseconds since the epoch, as seen by a handler.
NowMs == 10

(* ------------------------------ inputs --------------------------------- *)

\* One more block hash than the cache can hold, so that eviction happens.
Hashes == 1 .. (OPTIMISTIC_V3_CACHE_SIZE_DEFAULT + 1)

\* A block submission: the hash of its bid trace and its payload.  Hash 1 is
\* submitted with two different payloads (a resubmission).
Bids ==
    { [block_hash |-> h, payload |-> "p1"] : h \in Hashes }
        \cup { [block_hash |-> 1, payload |-> "p2"] }

\* Lag counts a BroadcastStream can report.
Lags == {1, 3}

Pubkeys == {"relayA", "relayX"}
Domains == {"domain", "otherDomain"}
Timestamps == {NowMs - 1, NowMs + 1}

\* The signed message of a SignedGetPayloadV3.
Messages ==
    [request_ts : Timestamps, relay_public_key : Pubkeys, block_hash : Hashes]

\* A BLS signature is modelled by what it binds: the signing key, the signed
\* message and the domain mixed into the signing root.
Sign(key, message, dom) == [signer |-> key, message |-> message, dom |-> dom]

OtherHash(h) == IF h = 1 THEN 2 ELSE 1

\* Signatures a caller may attach to message m: the genuine one, one made
\* under another domain, and one made over a different message (tampering).
SignaturesFor(m) ==
    { Sign(m.relay_public_key, m, "domain"),
      Sign(m.relay_public_key, m, "otherDomain"),
      Sign(m.relay_public_key,
           [m EXCEPT !.block_hash = OtherHash(m.block_hash)], "domain") }

SignedRequests ==
    UNION { { [message |-> m, signature |-> s] : s \in SignaturesFor(m) }
            : m \in Messages }

\* Request bodies as byte strings, described by the encoding they are written
\* in, their length and the value they encode (a set of at most one element
\* stands for an Option throughout).
JsonBodies ==
    { [enc |-> "json", len |-> l, value |-> {r}] :
        l \in { OPTIMISTIC_V3_SERVER_CONTENT_LENGTH_LIMIT,
                OPTIMISTIC_V3_SERVER_CONTENT_LENGTH_LIMIT + 1 },
        r \in SignedRequests }

SszBodies ==
    { [enc |-> "ssz", len |-> SSZ_REQUEST_LEN, value |-> {r}] : r \in SignedRequests }

\* A body that parses in neither encoding encodes no value.
GarbageBodies ==
    { [enc |-> "garbage", len |-> l, value |-> {}] :
        l \in { OPTIMISTIC_V3_SERVER_CONTENT_LENGTH_LIMIT,
                OPTIMISTIC_V3_SERVER_CONTENT_LENGTH_LIMIT + 1 } }

Bodies == JsonBodies \cup SszBodies \cup GarbageBodies

ContentTypes == {"application/json", "application/octet-stream", "text/plain"}

HttpRequests == [content_type : ContentTypes, bytes : Bodies]

\* Each handler slot serves one request (one warp task per request).
Handlers == {"h1"}

(* ------------------------------ LruMap --------------------------------- *)

\* LruMap<B256, Arc<SubmitBlockRequest>> as a sequence of entries ordered from
\* the least recently used (head) to the most recently used (last).
Keys(m) == { m[i].key : i \in DOMAIN m }

IndexOf(m, k) == CHOOSE i \in DOMAIN m : m[i].key = k

RemoveAt(m, i) == SubSeq(m, 1, i - 1) \o SubSeq(m, i + 1, Len(m))

\* A lookup that ignores the key and yields the newest entry.
LruGetNewest(m, k) == IF m # << >> THEN { m[Len(m)].value } ELSE {}

\* LruMap::get(&key): the value if present.
LruGet(m, k) == IF k \in Keys(m) THEN { m[IndexOf(m, k)].value } ELSE {}

\* A lookup that leaves the recency order alone (what LruMap::peek does).
LruTouchNoPromote(m, k) == m

\* A lookup that takes the entry it finds out of the map (LruMap::remove).
LruTouchRemove(m, k) ==
    IF k \in Keys(m) THEN RemoveAt(m, IndexOf(m, k)) ELSE m


\* LruMap::get(&key) promotes a found entry to most recently used.
LruTouch(m, k) ==
    IF k \in Keys(m)
        THEN Append(RemoveAt(m, IndexOf(m, k)), m[IndexOf(m, k)])
        ELSE m

\* A limiter that never reports the map over its limit.
LruTrimNever(m, limit) == m

\* pop_newest in place of pop_oldest.
LruTrimNewest(m, limit) ==
    IF Len(m) > limit THEN SubSeq(m, 1, Len(m) - 1) ELSE m

\* Popping the entry next to the oldest one.
LruTrimSecond(m, limit) == IF Len(m) > limit THEN RemoveAt(m, 2) ELSE m

\* ByLength::is_over_the_limit followed by pop_oldest.
LruTrim(m, limit) == IF Len(m) > limit THEN Tail(m) ELSE m

\* An insert that keeps the stored value of a present key (insert-if-absent).
LruInsertKeepOld(m, limit, k, v) ==
    IF limit = 0
        THEN m
        ELSE IF k \in Keys(m)
            THEN LruTrim(Append(RemoveAt(m, IndexOf(m, k)), m[IndexOf(m, k)]), limit)
            ELSE LruTrim(Append(m, [key |-> k, value |-> v]), limit)

\* An insert that replaces the value of a present key where it stands, without
\* promoting the entry.
LruInsertInPlace(m, limit, k, v) ==
    IF limit = 0
        THEN m
        ELSE IF k \in Keys(m)
            THEN LruTrim([m EXCEPT ![IndexOf(m, k)] = [key |-> k, value |-> v]], limit)
            ELSE LruTrim(Append(m, [key |-> k, value |-> v]), limit)

\* LruMap::insert(key, value) under a ByLength(limit) limiter: a present key
\* has its value replaced and is promoted; a new key is added as the most
\* recently used entry and the oldest entry is popped while over the limit.
LruInsert(m, limit, k, v) ==
    IF limit = 0
        THEN m
        ELSE IF k \in Keys(m)
            THEN LruTrim(Append(RemoveAt(m, IndexOf(m, k)),
                                [key |-> k, value |-> v]), limit)
            ELSE LruTrim(Append(m, [key |-> k, value |-> v]), limit)

\* The first half of LruMap::insert: the entry is written as the most recently
\* used one, the map possibly holding one entry more than its limit until the
\* oldest is popped.
LruPut(m, limit, k, v) ==
    IF limit = 0
        THEN m
        ELSE IF k \in Keys(m)
            THEN Append(RemoveAt(m, IndexOf(m, k)), [key |-> k, value |-> v])
            ELSE Append(m, [key |-> k, value |-> v])

(* ------------------------ decoding and encoding ------------------------ *)

\* A JSON decoder that also accepts the SSZ encoding of a request.
DecodeJsonOrSsz(b) == IF b.enc \in {"json", "ssz"} THEN b.value ELSE {}


\* serde_json::from_slice::<SignedGetPayloadV3>: succeeds on JSON text only.
DecodeJson(b) == IF b.enc = "json" THEN b.value ELSE {}

\* SignedGetPayloadV3::from_ssz_bytes: a fixed-size container, so the input
\* must be an SSZ encoding of exactly the container's length.
DecodeSsz(b) ==
    IF b.enc = "ssz" /\ b.len = SSZ_REQUEST_LEN THEN b.value ELSE {}

\* serde_json::to_vec(&block) / block.as_ssz_bytes().
EncodeJson(bid) == [enc |-> "json", value |-> bid]
EncodeSsz(bid) == [enc |-> "ssz", value |-> bid]

\* verify_signed_relay_request(&request, domain): the signature must be by
\* the claimed relay key, over the request's message, under the domain.
verify_signed_relay_request(r, dom) ==
    /\ r.signature.signer = r.message.relay_public_key
    /\ r.signature.message = r.message
    /\ r.signature.dom = dom

\* A limit that turns away a body of exactly the limit's length.
ContentLengthAllowedStrict(len) == len < OPTIMISTIC_V3_SERVER_CONTENT_LENGTH_LIMIT


\* warp::body::content_length_limit(limit).
ContentLengthAllowed(len) == len <= OPTIMISTIC_V3_SERVER_CONTENT_LENGTH_LIMIT

\* SystemTime::now().duration_since(UNIX_EPOCH + request_ts) is Ok.
DurationSinceOk(request_ts) == NowMs >= request_ts

(* ------------------------------- state --------------------------------- *)

\* Handler fields fixed by spawn_server.
domain == "domain"
relay_pubkeys == {"relayA"}

VARIABLES
    blocks,                  \* the shared LruMap behind Arc<Mutex<..>>
    bid_stream,              \* "open" or "closed" (every sender dropped)
    task_log,                \* last diagnostic emitted by maintain_block_cache
    task_pc,                 \* position of maintain_block_cache in its loop
    task_block,              \* the block maintain_block_cache is inserting
    lock,                    \* holder of the Mutex around the map, or "free"
    pc,                      \* per handler slot: position in get_payload_v3
    content_type,            \* the request's content-type header (handler argument)
    bytes,                   \* the request's body (handler argument)
    is_json,                 \* local of get_payload_v3
    request,                 \* local: the decoded SignedGetPayloadV3
    block,                   \* local: the block cloned out of the cache
    response,                \* what the connection is answered with
    REQUESTS_TOTAL,
    RELAY_REQUEST_LATENCY,   \* number of observations in the histogram
    RESPONSE_LATENCY,        \* number of observations in the histogram
    BAD_REQUESTS_TOTAL,
    UNKNOWN_PUBKEY_TOTAL,
    INVALID_SIGNATURE_TOTAL,
    BLOCK_NOT_FOUND_TOTAL,
    touched,                 \* history: cached hashes, least recently touched first
    hist,                    \* history of cache operations (recorded when hist.on)
    got                      \* history: the lookup made by each handler

taskVars == <<task_pc, task_block, lock>>
cacheVars == <<blocks, bid_stream, task_log, taskVars>>
localVars == <<content_type, bytes, is_json, request, block>>
metricVars ==
    <<REQUESTS_TOTAL, RELAY_REQUEST_LATENCY, RESPONSE_LATENCY, BAD_REQUESTS_TOTAL,
      UNKNOWN_PUBKEY_TOTAL, INVALID_SIGNATURE_TOTAL, BLOCK_NOT_FOUND_TOTAL>>
histVars == <<touched, hist, got>>
vars == <<cacheVars, pc, localVars, response, metricVars, histVars>>

NoBytes == [enc |-> "garbage", len |-> 0, value |-> {}]
NoResponse == [status |-> 0, body |-> {}, content_type |-> ""]
Reply(status, body, ctype) ==
    [status |-> status, body |-> body, content_type |-> ctype]

\* Err(StatusCode) rendered by warp: the status with an empty body.
ErrReply(status) == Reply(status, {}, "")

(* History variables.  They are written by the two cache operations and read
   by no action.  `touched` orders the cached block hashes by the time of their
   last touch (an insert, or a lookup that found them), kept independently of
   the order the LruMap keeps.  `hist`, when hist.on, remembers
     inserted: the hashes inserted so far, in order, for as long as every
               insert was of a new hash and no lookup happened (hist.clean);
     latest:   for every hash, the bid most recently inserted under it;
     last:     the last cache operation, with the cache as it was before it;
     item:     the last item the stream yielded (a block, a lag count, its
               end), when hist.track = "faults";
     since:    for every hash, the other hashes inserted since it was last
               touched (inserted, or found by a lookup);
     touchers: for every hash, the other hashes touched since it was last
               touched.
   When hist.track = "recency" only latest, since and touchers are kept, and
   since and touchers are kept in that case only.
   `got` remembers the lookup a handler made: the hash and whether it was
   cached at that time and, when hist.on, whether it was the least recently
   touched one, the bid most recently inserted under it, the last diagnostic
   the ingestion task had emitted by then and how many other hashes had been
   inserted, and how many touched, since the hash was last touched. *)
NoOp == [op |-> "none", key |-> 0, value |-> {}, hit |-> FALSE,
         before |-> << >>, older |-> << >>]
NoGet == [done |-> FALSE, key |-> 0, present |-> FALSE, oldest |-> FALSE,
          latest |-> {}, after |-> "none", others |-> 0, touchers |-> 0]
NoItem == [kind |-> "none", lag |-> 0]
NoHist(on) ==
    [on |-> on, clean |-> TRUE, inserted |-> << >>,
     latest |-> [k \in Hashes |-> {}], last |-> NoOp, track |-> "lru",
     item |-> NoItem, since |-> [k \in Hashes |-> Hashes],
     touchers |-> [k \in Hashes |-> Hashes]]

\* The history recorded, with the stream items ("faults") or the inserts since
\* the last touch of every hash ("recency") tracked as well.
NoHistTracking(track) == [NoHist(TRUE) EXCEPT !.track = track]

Range(seq) == { seq[i] : i \in DOMAIN seq }

Without(seq, k) == SelectSeq(seq, LAMBDA x : x # k)

\* Hash k has just been touched and `present` are the hashes now cached.
Touch(order, k, present) ==
    SelectSeq(Append(Without(order, k), k), LAMBDA x : x \in present)

\* The hashes inserted since some hash was last touched, all of Hashes standing
\* for as many as the capacity or more, or for a hash never inserted.
Aged(others) ==
    IF Cardinality(others) >= OPTIMISTIC_V3_CACHE_SIZE_DEFAULT THEN Hashes ELSE others

HistAfterInsert(b) ==
    IF ~hist.on
        THEN hist
        ELSE IF hist.track = "recency"
            THEN [hist EXCEPT
                    !.latest = [@ EXCEPT ![b.block_hash] = {b}],
                    !.since = [k \in Hashes |->
                                 IF k = b.block_hash
                                     THEN {}
                                     ELSE Aged(@[k] \cup {b.block_hash})],
                    !.touchers = [k \in Hashes |->
                                    IF k = b.block_hash
                                        THEN {}
                                        ELSE Aged(@[k] \cup {b.block_hash})]]
            ELSE [hist EXCEPT
                    !.clean = @ /\ b.block_hash \notin Range(hist.inserted),
                    !.inserted = IF hist.clean /\ b.block_hash \notin Range(hist.inserted)
                                     THEN Append(@, b.block_hash)
                                     ELSE << >>,
                    !.latest = [@ EXCEPT ![b.block_hash] = {b}],
                    !.item = IF hist.track = "faults"
                                 THEN [kind |-> "block", lag |-> 0]
                                 ELSE @,
                    !.last = [op |-> "insert", key |-> b.block_hash, value |-> {b},
                              hit |-> b.block_hash \in Keys(blocks),
                              before |-> blocks, older |-> touched]]

\* The stream has yielded an item that is not a block.
HistAfterItem(kind, lag) ==
    IF hist.track = "faults"
        THEN [hist EXCEPT !.item = [kind |-> kind, lag |-> lag]]
        ELSE hist

HistAfterGet(k) ==
    IF ~hist.on
        THEN hist
        ELSE IF hist.track = "recency"
            THEN IF k \in Keys(blocks)
                     THEN [hist EXCEPT
                             !.since = [@ EXCEPT ![k] = {}],
                             !.touchers = [j \in Hashes |->
                                             IF j = k THEN {} ELSE Aged(@[j] \cup {k})]]
                     ELSE hist
            ELSE [hist EXCEPT
                    !.clean = FALSE,
                    !.inserted = << >>,
                    !.last = [op |-> "get", key |-> k, value |-> {},
                              hit |-> k \in Keys(blocks),
                              before |-> blocks, older |-> touched]]

GotAfterGet(h, k) ==
    [got EXCEPT ![h] = [done |-> TRUE, key |-> k,
                        present |-> k \in Keys(blocks),
                        oldest |-> hist.on /\ touched # << >> /\ Head(touched) = k,
                        latest |-> hist.latest[k],
                        after |-> IF hist.track = "faults"
                                      THEN task_log.event
                                      ELSE "none",
                        others |-> IF hist.track = "recency"
                                       THEN Cardinality(hist.since[k])
                                       ELSE 0,
                        touchers |-> IF hist.track = "recency"
                                         THEN Cardinality(hist.touchers[k])
                                         ELSE 0]]

\* State after spawn_server: an empty cache, the ingestion task waiting on the
\* stream, no request in flight, the metrics registered at zero.
Init ==
    /\ blocks = << >>
    /\ bid_stream = "open"
    /\ task_log = [event |-> "none", lag |-> 0]
    /\ task_pc = "next"
    /\ task_block = {}
    /\ lock = "free"
    /\ pc = [h \in Handlers |-> "idle"]
    /\ content_type = [h \in Handlers |-> ""]
    /\ bytes = [h \in Handlers |-> NoBytes]
    /\ is_json = [h \in Handlers |-> FALSE]
    /\ request = [h \in Handlers |-> {}]
    /\ block = [h \in Handlers |-> {}]
    /\ response = [h \in Handlers |-> NoResponse]
    /\ REQUESTS_TOTAL = 0
    /\ RELAY_REQUEST_LATENCY = 0
    /\ RESPONSE_LATENCY = 0
    /\ BAD_REQUESTS_TOTAL = 0
    /\ UNKNOWN_PUBKEY_TOTAL = 0
    /\ INVALID_SIGNATURE_TOTAL = 0
    /\ BLOCK_NOT_FOUND_TOTAL = 0
    /\ touched = << >>
    /\ hist = NoHist(FALSE)
    /\ got = [h \in Handlers |-> NoGet]

\* The same state, with the history of cache operations recorded.
InitLru ==
    /\ blocks = << >>
    /\ bid_stream = "open"
    /\ task_log = [event |-> "none", lag |-> 0]
    /\ task_pc = "next"
    /\ task_block = {}
    /\ lock = "free"
    /\ pc = [h \in Handlers |-> "idle"]
    /\ content_type = [h \in Handlers |-> ""]
    /\ bytes = [h \in Handlers |-> NoBytes]
    /\ is_json = [h \in Handlers |-> FALSE]
    /\ request = [h \in Handlers |-> {}]
    /\ block = [h \in Handlers |-> {}]
    /\ response = [h \in Handlers |-> NoResponse]
    /\ REQUESTS_TOTAL = 0
    /\ RELAY_REQUEST_LATENCY = 0
    /\ RESPONSE_LATENCY = 0
    /\ BAD_REQUESTS_TOTAL = 0
    /\ UNKNOWN_PUBKEY_TOTAL = 0
    /\ INVALID_SIGNATURE_TOTAL = 0
    /\ BLOCK_NOT_FOUND_TOTAL = 0
    /\ touched = << >>
    /\ hist = NoHist(TRUE)
    /\ got = [h \in Handlers |-> NoGet]

(* ------------------------ maintain_block_cache ------------------------- *)

\* A task that stores a block under a hash other than the one of its bid trace.
RecvBlockUnderOtherHash(b) ==
    /\ task_pc = "next"
    /\ bid_stream = "open"
    /\ blocks' = LruInsert(blocks, OPTIMISTIC_V3_CACHE_SIZE_DEFAULT,
                           OtherHash(b.block_hash), b)
    /\ touched' = Touch(touched, OtherHash(b.block_hash), Keys(blocks'))
    /\ hist' = HistAfterInsert(b)
    /\ UNCHANGED got
    /\ UNCHANGED <<bid_stream, task_log, taskVars, pc, localVars, response, metricVars>>


\* bid_stream.next().await yields Some(Ok(block)):
\*   let block_hash = block.bid_trace().block_hash;
\*   blocks.lock().insert(block_hash, block);
RecvBlock(b) ==
    /\ task_pc = "next"
    /\ bid_stream = "open"
    /\ blocks' = LruInsert(blocks, OPTIMISTIC_V3_CACHE_SIZE_DEFAULT, b.block_hash, b)
    /\ touched' = Touch(touched, b.block_hash, Keys(blocks'))
    /\ hist' = HistAfterInsert(b)
    /\ UNCHANGED got
    /\ UNCHANGED <<bid_stream, task_log, taskVars, pc, localVars, response, metricVars>>

\* A task that gives up on the stream at the first lag: it logs and returns.
RecvLaggedReturns(lag) ==
    /\ task_pc = "next"
    /\ bid_stream = "open"
    /\ task_log' = [event |-> "lagging", lag |-> lag]
    /\ task_pc' = "returned"
    /\ hist' = HistAfterItem("lagged", lag)
    /\ UNCHANGED <<blocks, bid_stream, task_block, lock, pc, localVars, response,
                   metricVars, touched, got>>

\* bid_stream.next().await yields Some(Err(Lagged(lag))): logged, loop again.
RecvLagged(lag) ==
    /\ task_pc = "next"
    /\ bid_stream = "open"
    /\ task_log' = [event |-> "lagging", lag |-> lag]
    /\ hist' = HistAfterItem("lagged", lag)
    /\ UNCHANGED <<blocks, bid_stream, taskVars, pc, localVars, response, metricVars,
                   touched, got>>

\* A task that returns when the stream ends.
RecvClosedReturns ==
    /\ task_pc = "next"
    /\ bid_stream' = "closed"
    /\ task_log' = [event |-> "closed", lag |-> 0]
    /\ task_pc' = "returned"
    /\ hist' = HistAfterItem("closed", 0)
    /\ UNCHANGED <<blocks, task_block, lock, pc, localVars, response, metricVars,
                   touched, got>>

\* bid_stream.next().await yields None (all senders gone): logged, loop again.
RecvClosed ==
    /\ task_pc = "next"
    /\ bid_stream' = "closed"
    /\ task_log' = [event |-> "closed", lag |-> 0]
    /\ hist' = HistAfterItem("closed", 0)
    /\ UNCHANGED <<blocks, taskVars, pc, localVars, response, metricVars, touched, got>>

(* --------------------- spawn_server: the warp route -------------------- *)

\* A POST to /get_payload_v3 carrying a content-type header and a body of
\* the announced length.  The content_length_limit filter rejects an oversized
\* body (413 Payload Too Large) before the handler is called; otherwise
\* get_payload_v3_metered starts: it counts the request and calls
\* get_payload_v3 with the header value and the body.
Dispatch(h, r) ==
    /\ pc[h] = "idle"
    /\ content_type' = [content_type EXCEPT ![h] = r.content_type]
    /\ bytes' = [bytes EXCEPT ![h] = r.bytes]
    /\ IF ContentLengthAllowed(r.bytes.len)
        THEN /\ REQUESTS_TOTAL' = REQUESTS_TOTAL + 1
             /\ pc' = [pc EXCEPT ![h] = "decode"]
             /\ UNCHANGED response
        ELSE /\ response' = [response EXCEPT ![h] = ErrReply(413)]
             /\ pc' = [pc EXCEPT ![h] = "rejected"]
             /\ UNCHANGED REQUESTS_TOTAL
    /\ UNCHANGED <<histVars, cacheVars, is_json, request, block, RELAY_REQUEST_LATENCY,
                   RESPONSE_LATENCY, BAD_REQUESTS_TOTAL, UNKNOWN_PUBKEY_TOTAL,
                   INVALID_SIGNATURE_TOTAL, BLOCK_NOT_FOUND_TOTAL>>

(* ----------------------- Handler::get_payload_v3 ----------------------- *)

\* The handler returns Err(status): the response is set and control goes back
\* to get_payload_v3_metered.
Return(h, r) ==
    /\ response' = [response EXCEPT ![h] = r]
    /\ pc' = [pc EXCEPT ![h] = "observe"]

\* A gate that falls back to the JSON decoder for any other content type.
ParseRequestLenient(ctype, b) ==
    IF ctype = "application/octet-stream"
        THEN [supported |-> TRUE, is_json |-> FALSE, request |-> DecodeSsz(b)]
        ELSE [supported |-> TRUE, is_json |-> TRUE, request |-> DecodeJson(b)]

\* A gate that compares media types: the case of the value and a parameter
\* after the media type are ignored.
ParseRequestByMediaType(ctype, b) ==
    IF ctype \in {"application/json", "Application/JSON",
                  "application/json; charset=utf-8"}
        THEN [supported |-> TRUE, is_json |-> TRUE, request |-> DecodeJson(b)]
        ELSE IF ctype = "application/octet-stream"
            THEN [supported |-> TRUE, is_json |-> FALSE, request |-> DecodeSsz(b)]
            ELSE [supported |-> FALSE, is_json |-> FALSE, request |-> {}]


\* The content type selects the decoder; anything else is a bad request.
ParseRequest(ctype, b) ==
    IF ctype = "application/json"
        THEN [supported |-> TRUE, is_json |-> TRUE, request |-> DecodeJson(b)]
        ELSE IF ctype = "application/octet-stream"
            THEN [supported |-> TRUE, is_json |-> FALSE, request |-> DecodeSsz(b)]
            ELSE [supported |-> FALSE, is_json |-> FALSE, request |-> {}]

Decode(h) ==
    /\ pc[h] = "decode"
    /\ LET p == ParseRequest(content_type[h], bytes[h]) IN
        /\ is_json' = [is_json EXCEPT ![h] = p.is_json]
        /\ IF p.request # {}
            THEN /\ request' = [request EXCEPT ![h] = p.request]
                 /\ pc' = [pc EXCEPT ![h] = "latency"]
                 /\ UNCHANGED <<response, BAD_REQUESTS_TOTAL>>
            ELSE /\ BAD_REQUESTS_TOTAL' = BAD_REQUESTS_TOTAL + 1
                 /\ Return(h, ErrReply(400))
                 /\ UNCHANGED request
    /\ UNCHANGED <<histVars, cacheVars, content_type, bytes, block, REQUESTS_TOTAL,
                   RELAY_REQUEST_LATENCY, RESPONSE_LATENCY, UNKNOWN_PUBKEY_TOTAL,
                   INVALID_SIGNATURE_TOTAL, BLOCK_NOT_FOUND_TOTAL>>

\* A handler that turns away a request issued in the future.
ObserveRelayLatencyOrReject(h) ==
    /\ pc[h] = "latency"
    /\ \E r \in request[h] :
        IF DurationSinceOk(r.message.request_ts)
            THEN /\ RELAY_REQUEST_LATENCY' = RELAY_REQUEST_LATENCY + 1
                 /\ pc' = [pc EXCEPT ![h] = "pubkey"]
                 /\ UNCHANGED <<response, BAD_REQUESTS_TOTAL>>
            ELSE /\ BAD_REQUESTS_TOTAL' = BAD_REQUESTS_TOTAL + 1
                 /\ Return(h, ErrReply(400))
                 /\ UNCHANGED RELAY_REQUEST_LATENCY
    /\ UNCHANGED <<histVars, cacheVars, localVars, REQUESTS_TOTAL, RESPONSE_LATENCY,
                   UNKNOWN_PUBKEY_TOTAL, INVALID_SIGNATURE_TOTAL, BLOCK_NOT_FOUND_TOTAL>>


ObserveRelayLatency(h) ==
    /\ pc[h] = "latency"
    /\ \E r \in request[h] :
        RELAY_REQUEST_LATENCY' =
            IF DurationSinceOk(r.message.request_ts)
                THEN RELAY_REQUEST_LATENCY + 1
                ELSE RELAY_REQUEST_LATENCY
    /\ pc' = [pc EXCEPT ![h] = "pubkey"]
    /\ UNCHANGED <<histVars, cacheVars, localVars, response, REQUESTS_TOTAL, RESPONSE_LATENCY,
                   BAD_REQUESTS_TOTAL, UNKNOWN_PUBKEY_TOTAL, INVALID_SIGNATURE_TOTAL,
                   BLOCK_NOT_FOUND_TOTAL>>

\* A membership test that accepts every key.
PubkeyKnownAny(key) == key \in Pubkeys

\* self.relay_pubkeys.contains(&relay_pubkey)
PubkeyKnown(key) == key \in relay_pubkeys

\* A key check that answers an unknown key with 403 Forbidden.
CheckPubkeyForbidden(h) ==
    /\ pc[h] = "pubkey"
    /\ \E r \in request[h] :
        IF PubkeyKnown(r.message.relay_public_key)
            THEN /\ pc' = [pc EXCEPT ![h] = "signature"]
                 /\ UNCHANGED <<response, UNKNOWN_PUBKEY_TOTAL>>
            ELSE /\ UNKNOWN_PUBKEY_TOTAL' = UNKNOWN_PUBKEY_TOTAL + 1
                 /\ Return(h, ErrReply(403))
    /\ UNCHANGED <<histVars, cacheVars, localVars, REQUESTS_TOTAL, RELAY_REQUEST_LATENCY,
                   RESPONSE_LATENCY, BAD_REQUESTS_TOTAL, INVALID_SIGNATURE_TOTAL,
                   BLOCK_NOT_FOUND_TOTAL>>

\* A key check made after the signature check: the signature is verified
\* first and the key is looked up only for a request whose signature verifies.
CheckPubkeyAfterSignature(h) ==
    /\ pc[h] = "pubkey"
    /\ \E r \in request[h] :
        IF ~verify_signed_relay_request(r, domain)
            THEN /\ INVALID_SIGNATURE_TOTAL' = INVALID_SIGNATURE_TOTAL + 1
                 /\ Return(h, ErrReply(401))
                 /\ UNCHANGED UNKNOWN_PUBKEY_TOTAL
            ELSE IF PubkeyKnown(r.message.relay_public_key)
                THEN /\ pc' = [pc EXCEPT ![h] = "lookup"]
                     /\ UNCHANGED <<response, UNKNOWN_PUBKEY_TOTAL, INVALID_SIGNATURE_TOTAL>>
                ELSE /\ UNKNOWN_PUBKEY_TOTAL' = UNKNOWN_PUBKEY_TOTAL + 1
                     /\ Return(h, ErrReply(401))
                     /\ UNCHANGED INVALID_SIGNATURE_TOTAL
    /\ UNCHANGED <<histVars, cacheVars, localVars, REQUESTS_TOTAL, RELAY_REQUEST_LATENCY,
                   RESPONSE_LATENCY, BAD_REQUESTS_TOTAL, BLOCK_NOT_FOUND_TOTAL>>

CheckPubkey(h) ==
    /\ pc[h] = "pubkey"
    /\ \E r \in request[h] :
        IF PubkeyKnown(r.message.relay_public_key)
            THEN /\ pc' = [pc EXCEPT ![h] = "signature"]
                 /\ UNCHANGED <<response, UNKNOWN_PUBKEY_TOTAL>>
            ELSE /\ UNKNOWN_PUBKEY_TOTAL' = UNKNOWN_PUBKEY_TOTAL + 1
                 /\ Return(h, ErrReply(401))
    /\ UNCHANGED <<histVars, cacheVars, localVars, REQUESTS_TOTAL, RELAY_REQUEST_LATENCY,
                   RESPONSE_LATENCY, BAD_REQUESTS_TOTAL, INVALID_SIGNATURE_TOTAL,
                   BLOCK_NOT_FOUND_TOTAL>>

\* A signature check that counts the failure but does not return.
VerifySignatureNoReturn(h) ==
    /\ pc[h] = "signature"
    /\ \E r \in request[h] :
        INVALID_SIGNATURE_TOTAL' =
            IF verify_signed_relay_request(r, domain)
                THEN INVALID_SIGNATURE_TOTAL
                ELSE INVALID_SIGNATURE_TOTAL + 1
    /\ pc' = [pc EXCEPT ![h] = "lookup"]
    /\ UNCHANGED <<histVars, cacheVars, localVars, response, REQUESTS_TOTAL,
                   RELAY_REQUEST_LATENCY, RESPONSE_LATENCY, BAD_REQUESTS_TOTAL,
                   UNKNOWN_PUBKEY_TOTAL, BLOCK_NOT_FOUND_TOTAL>>

\* A handler that fetches the block, touching the cache, before it verifies
\* the signature.
VerifySignatureAfterGet(h) ==
    /\ pc[h] = "signature"
    /\ \E r \in request[h] :
        /\ blocks' = LruTouch(blocks, r.message.block_hash)
        /\ touched' = IF r.message.block_hash \in Keys(blocks)
                          THEN Touch(touched, r.message.block_hash, Keys(blocks'))
                          ELSE touched
        /\ hist' = HistAfterGet(r.message.block_hash)
        /\ got' = GotAfterGet(h, r.message.block_hash)
        /\ IF verify_signed_relay_request(r, domain)
            THEN /\ pc' = [pc EXCEPT ![h] = "lookup"]
                 /\ UNCHANGED <<response, INVALID_SIGNATURE_TOTAL>>
            ELSE /\ INVALID_SIGNATURE_TOTAL' = INVALID_SIGNATURE_TOTAL + 1
                 /\ Return(h, ErrReply(401))
    /\ UNCHANGED <<bid_stream, task_log, taskVars, localVars, REQUESTS_TOTAL, RELAY_REQUEST_LATENCY,
                   RESPONSE_LATENCY, BAD_REQUESTS_TOTAL, UNKNOWN_PUBKEY_TOTAL,
                   BLOCK_NOT_FOUND_TOTAL>>

VerifySignature(h) ==
    /\ pc[h] = "signature"
    /\ \E r \in request[h] :
        IF verify_signed_relay_request(r, domain)
            THEN /\ pc' = [pc EXCEPT ![h] = "lookup"]
                 /\ UNCHANGED <<response, INVALID_SIGNATURE_TOTAL>>
            ELSE /\ INVALID_SIGNATURE_TOTAL' = INVALID_SIGNATURE_TOTAL + 1
                 /\ Return(h, ErrReply(401))
    /\ UNCHANGED <<histVars, cacheVars, localVars, REQUESTS_TOTAL, RELAY_REQUEST_LATENCY,
                   RESPONSE_LATENCY, BAD_REQUESTS_TOTAL, UNKNOWN_PUBKEY_TOTAL,
                   BLOCK_NOT_FOUND_TOTAL>>

\* A lookup that answers a miss without counting it.
LookupUncounted(h) ==
    /\ pc[h] = "lookup"
    /\ \E r \in request[h] :
        LET found == LruGet(blocks, r.message.block_hash) IN
        /\ blocks' = LruTouch(blocks, r.message.block_hash)
        /\ touched' = IF found # {}
                          THEN Touch(touched, r.message.block_hash, Keys(blocks'))
                          ELSE touched
        /\ hist' = HistAfterGet(r.message.block_hash)
        /\ got' = GotAfterGet(h, r.message.block_hash)
        /\ IF found # {}
            THEN /\ block' = [block EXCEPT ![h] = found]
                 /\ pc' = [pc EXCEPT ![h] = "encode"]
                 /\ UNCHANGED response
            ELSE /\ Return(h, ErrReply(404))
                 /\ UNCHANGED block
    /\ UNCHANGED <<bid_stream, task_log, taskVars, content_type, bytes, is_json, request,
                   REQUESTS_TOTAL, RELAY_REQUEST_LATENCY, RESPONSE_LATENCY,
                   BAD_REQUESTS_TOTAL, UNKNOWN_PUBKEY_TOTAL, INVALID_SIGNATURE_TOTAL,
                   BLOCK_NOT_FOUND_TOTAL>>

\* A lookup that is made only while the stream is open.
LookupWhileStreamOpen(h) ==
    /\ pc[h] = "lookup"
    /\ bid_stream = "open"
    /\ \E r \in request[h] :
        LET found == LruGet(blocks, r.message.block_hash) IN
        /\ blocks' = LruTouch(blocks, r.message.block_hash)
        /\ touched' = IF found # {}
                          THEN Touch(touched, r.message.block_hash, Keys(blocks'))
                          ELSE touched
        /\ hist' = HistAfterGet(r.message.block_hash)
        /\ got' = GotAfterGet(h, r.message.block_hash)
        /\ IF found # {}
            THEN /\ block' = [block EXCEPT ![h] = found]
                 /\ pc' = [pc EXCEPT ![h] = "encode"]
                 /\ UNCHANGED <<response, BLOCK_NOT_FOUND_TOTAL>>
            ELSE /\ BLOCK_NOT_FOUND_TOTAL' = BLOCK_NOT_FOUND_TOTAL + 1
                 /\ Return(h, ErrReply(404))
                 /\ UNCHANGED block
    /\ UNCHANGED <<bid_stream, task_log, taskVars, content_type, bytes, is_json, request,
                   REQUESTS_TOTAL, RELAY_REQUEST_LATENCY, RESPONSE_LATENCY,
                   BAD_REQUESTS_TOTAL, UNKNOWN_PUBKEY_TOTAL, INVALID_SIGNATURE_TOTAL>>

\* A handler that remembers the requests it has served and answers a request
\* it has seen before as if its block were not cached.
LookupOnce(h) ==
    /\ pc[h] = "lookup"
    /\ \E r \in request[h] :
        LET seen == \E g \in DOMAIN pc \ {h} : got[g].done /\ bytes[g] = bytes[h]
            found == IF seen THEN {} ELSE LruGet(blocks, r.message.block_hash) IN
        /\ blocks' = LruTouch(blocks, r.message.block_hash)
        /\ touched' = IF found # {}
                          THEN Touch(touched, r.message.block_hash, Keys(blocks'))
                          ELSE touched
        /\ hist' = HistAfterGet(r.message.block_hash)
        /\ got' = GotAfterGet(h, r.message.block_hash)
        /\ IF found # {}
            THEN /\ block' = [block EXCEPT ![h] = found]
                 /\ pc' = [pc EXCEPT ![h] = "encode"]
                 /\ UNCHANGED <<response, BLOCK_NOT_FOUND_TOTAL>>
            ELSE /\ BLOCK_NOT_FOUND_TOTAL' = BLOCK_NOT_FOUND_TOTAL + 1
                 /\ Return(h, ErrReply(404))
                 /\ UNCHANGED block
    /\ UNCHANGED <<bid_stream, task_log, taskVars, content_type, bytes, is_json, request,
                   REQUESTS_TOTAL, RELAY_REQUEST_LATENCY, RESPONSE_LATENCY,
                   BAD_REQUESTS_TOTAL, UNKNOWN_PUBKEY_TOTAL, INVALID_SIGNATURE_TOTAL>>


\* { let mut blocks = self.blocks.lock(); blocks.get(&block_hash).cloned() }
Lookup(h) ==
    /\ pc[h] = "lookup"
    /\ \E r \in request[h] :
        LET found == LruGet(blocks, r.message.block_hash) IN
        /\ blocks' = LruTouch(blocks, r.message.block_hash)
        /\ touched' = IF found # {}
                          THEN Touch(touched, r.message.block_hash, Keys(blocks'))
                          ELSE touched
        /\ hist' = HistAfterGet(r.message.block_hash)
        /\ got' = GotAfterGet(h, r.message.block_hash)
        /\ IF found # {}
            THEN /\ block' = [block EXCEPT ![h] = found]
                 /\ pc' = [pc EXCEPT ![h] = "encode"]
                 /\ UNCHANGED <<response, BLOCK_NOT_FOUND_TOTAL>>
            ELSE /\ BLOCK_NOT_FOUND_TOTAL' = BLOCK_NOT_FOUND_TOTAL + 1
                 /\ Return(h, ErrReply(404))
                 /\ UNCHANGED block
    /\ UNCHANGED <<bid_stream, task_log, taskVars, content_type, bytes, is_json, request,
                   REQUESTS_TOTAL, RELAY_REQUEST_LATENCY, RESPONSE_LATENCY,
                   BAD_REQUESTS_TOTAL, UNKNOWN_PUBKEY_TOTAL, INVALID_SIGNATURE_TOTAL>>

\* A response that is always written as JSON.
EncodeResponseAlwaysJson(json, bid) ==
    Reply(200, {EncodeJson(bid)}, "application/json")

\* The body and content type of the Ok response for a found block.
EncodeResponse(json, bid) ==
    IF json
        THEN Reply(200, {EncodeJson(bid)}, "application/json")
        ELSE Reply(200, {EncodeSsz(bid)}, "application/octet-stream")

Encode(h) ==
    /\ pc[h] = "encode"
    /\ \E b \in block[h] : Return(h, EncodeResponse(is_json[h], b))
    /\ UNCHANGED <<histVars, cacheVars, localVars, metricVars>>

\* A wrapper that observes the response latency of successful requests only.
MeteredReturnOkOnly(h) ==
    /\ pc[h] = "observe"
    /\ RESPONSE_LATENCY' =
         IF response[h].status = 200 THEN RESPONSE_LATENCY + 1 ELSE RESPONSE_LATENCY
    /\ pc' = [pc EXCEPT ![h] = "done"]
    /\ UNCHANGED <<histVars, cacheVars, localVars, response, REQUESTS_TOTAL,
                   RELAY_REQUEST_LATENCY, BAD_REQUESTS_TOTAL, UNKNOWN_PUBKEY_TOTAL,
                   INVALID_SIGNATURE_TOTAL, BLOCK_NOT_FOUND_TOTAL>>

\* Back in get_payload_v3_metered: observe the response latency and reply.
MeteredReturn(h) ==
    /\ pc[h] = "observe"
    /\ RESPONSE_LATENCY' = RESPONSE_LATENCY + 1
    /\ pc' = [pc EXCEPT ![h] = "done"]
    /\ UNCHANGED <<histVars, cacheVars, localVars, response, REQUESTS_TOTAL,
                   RELAY_REQUEST_LATENCY, BAD_REQUESTS_TOTAL, UNKNOWN_PUBKEY_TOTAL,
                   INVALID_SIGNATURE_TOTAL, BLOCK_NOT_FOUND_TOTAL>>

Next ==
    \/ \E b \in Bids : RecvBlock(b)
    \/ \E lag \in Lags : RecvLagged(lag)
    \/ RecvClosed
    \/ \E h \in DOMAIN pc, r \in HttpRequests : Dispatch(h, r)
    \/ \E h \in DOMAIN pc : Decode(h)
    \/ \E h \in DOMAIN pc : ObserveRelayLatency(h)
    \/ \E h \in DOMAIN pc : CheckPubkey(h)
    \/ \E h \in DOMAIN pc : VerifySignature(h)
    \/ \E h \in DOMAIN pc : Lookup(h)
    \/ \E h \in DOMAIN pc : Encode(h)
    \/ \E h \in DOMAIN pc : MeteredReturn(h)

Spec == Init /\ [][Next]_vars

\* Requests that pass every check before the lookup, in either encoding,
\* issued before they are received.
LookupRequests ==
    { r \in HttpRequests :
        /\ ContentLengthAllowed(r.bytes.len)
        /\ ParseRequest(r.content_type, r.bytes).request # {}
        /\ \A q \in r.bytes.value :
            /\ DurationSinceOk(q.message.request_ts)
            /\ PubkeyKnown(q.message.relay_public_key)
            /\ verify_signed_relay_request(q, domain) }

\* A request of that kind arrives.
DispatchLookup(h) ==
    /\ pc[h] = "idle"
    /\ \E r \in LookupRequests : Dispatch(h, r)

\* The same system serving only such requests, so that every request reaches
\* the cache.
NextLru ==
    \/ \E b \in Bids : RecvBlock(b)
    \/ \E lag \in Lags : RecvLagged(lag)
    \/ RecvClosed
    \/ \E h \in DOMAIN pc : DispatchLookup(h)
    \/ \E h \in DOMAIN pc : Decode(h)
    \/ \E h \in DOMAIN pc : ObserveRelayLatency(h)
    \/ \E h \in DOMAIN pc : CheckPubkey(h)
    \/ \E h \in DOMAIN pc : VerifySignature(h)
    \/ \E h \in DOMAIN pc : Lookup(h)
    \/ \E h \in DOMAIN pc : Encode(h)
    \/ \E h \in DOMAIN pc : MeteredReturn(h)

SpecLru == InitLru /\ [][NextLru]_vars

\* The same system and requests, with the items of the stream recorded.
InitFaults ==
    /\ blocks = << >>
    /\ bid_stream = "open"
    /\ task_log = [event |-> "none", lag |-> 0]
    /\ task_pc = "next"
    /\ task_block = {}
    /\ lock = "free"
    /\ pc = [h \in Handlers |-> "idle"]
    /\ content_type = [h \in Handlers |-> ""]
    /\ bytes = [h \in Handlers |-> NoBytes]
    /\ is_json = [h \in Handlers |-> FALSE]
    /\ request = [h \in Handlers |-> {}]
    /\ block = [h \in Handlers |-> {}]
    /\ response = [h \in Handlers |-> NoResponse]
    /\ REQUESTS_TOTAL = 0
    /\ RELAY_REQUEST_LATENCY = 0
    /\ RESPONSE_LATENCY = 0
    /\ BAD_REQUESTS_TOTAL = 0
    /\ UNKNOWN_PUBKEY_TOTAL = 0
    /\ INVALID_SIGNATURE_TOTAL = 0
    /\ BLOCK_NOT_FOUND_TOTAL = 0
    /\ touched = << >>
    /\ hist = NoHistTracking("faults")
    /\ got = [h \in Handlers |-> NoGet]

SpecFaults == InitFaults /\ [][NextLru]_vars

(* --------------------- two requests served in parallel ------------------ *)

\* warp serves every connection on a task of its own: two invocations of the
\* handler, each with its own locals, over the same cache and metrics.
SeqHandlers == {"h1", "h2"}

\* The bids of the stream in this setting: one bid, for hash 1.
SeqBids == { b \in Bids : b.block_hash = 1 /\ b.payload = "p1" }

\* The requests in this setting: for hash 1, issued before they are received,
\* signed over their own message (genuinely or under another domain); of any
\* content type, encoding, length and key.
SeqRequests ==
    { r \in HttpRequests :
        \A q \in r.bytes.value :
            /\ q.message.block_hash = 1
            /\ DurationSinceOk(q.message.request_ts)
            /\ q.signature.message = q.message }

InitSeq ==
    /\ blocks = << >>
    /\ bid_stream = "open"
    /\ task_log = [event |-> "none", lag |-> 0]
    /\ task_pc = "next"
    /\ task_block = {}
    /\ lock = "free"
    /\ pc = [h \in SeqHandlers |-> "idle"]
    /\ content_type = [h \in SeqHandlers |-> ""]
    /\ bytes = [h \in SeqHandlers |-> NoBytes]
    /\ is_json = [h \in SeqHandlers |-> FALSE]
    /\ request = [h \in SeqHandlers |-> {}]
    /\ block = [h \in SeqHandlers |-> {}]
    /\ response = [h \in SeqHandlers |-> NoResponse]
    /\ REQUESTS_TOTAL = 0
    /\ RELAY_REQUEST_LATENCY = 0
    /\ RESPONSE_LATENCY = 0
    /\ BAD_REQUESTS_TOTAL = 0
    /\ UNKNOWN_PUBKEY_TOTAL = 0
    /\ INVALID_SIGNATURE_TOTAL = 0
    /\ BLOCK_NOT_FOUND_TOTAL = 0
    /\ touched = << >>
    /\ hist = NoHist(FALSE)
    /\ got = [h \in SeqHandlers |-> NoGet]

DispatchSeq(h) ==
    /\ pc[h] = "idle"
    /\ \E r \in SeqRequests : Dispatch(h, r)

NextSeq ==
    \/ \E b \in SeqBids : RecvBlock(b)
    \/ \E lag \in Lags : RecvLagged(lag)
    \/ RecvClosed
    \/ \E h \in DOMAIN pc : DispatchSeq(h)
    \/ \E h \in DOMAIN pc : Decode(h)
    \/ \E h \in DOMAIN pc : ObserveRelayLatency(h)
    \/ \E h \in DOMAIN pc : CheckPubkey(h)
    \/ \E h \in DOMAIN pc : VerifySignature(h)
    \/ \E h \in DOMAIN pc : Lookup(h)
    \/ \E h \in DOMAIN pc : Encode(h)
    \/ \E h \in DOMAIN pc : MeteredReturn(h)

SpecSeq == InitSeq /\ [][NextSeq]_vars

(* ------------- two lookups, with the recency history recorded ----------- *)

\* The bids of the stream in this setting: one bid for every hash.
RecencyBids == { b \in Bids : b.payload = "p1" }

\* The requests in this setting: JSON requests that reach the lookup.
RecencyRequests == { r \in LookupRequests : r.content_type = "application/json" }

\* Two invocations of the handler over a stream that neither lags nor ends,
\* with the inserts and the touches since the last touch of every hash recorded.
InitRecency ==
    /\ blocks = << >>
    /\ bid_stream = "open"
    /\ task_log = [event |-> "none", lag |-> 0]
    /\ task_pc = "next"
    /\ task_block = {}
    /\ lock = "free"
    /\ pc = [h \in SeqHandlers |-> "idle"]
    /\ content_type = [h \in SeqHandlers |-> ""]
    /\ bytes = [h \in SeqHandlers |-> NoBytes]
    /\ is_json = [h \in SeqHandlers |-> FALSE]
    /\ request = [h \in SeqHandlers |-> {}]
    /\ block = [h \in SeqHandlers |-> {}]
    /\ response = [h \in SeqHandlers |-> NoResponse]
    /\ REQUESTS_TOTAL = 0
    /\ RELAY_REQUEST_LATENCY = 0
    /\ RESPONSE_LATENCY = 0
    /\ BAD_REQUESTS_TOTAL = 0
    /\ UNKNOWN_PUBKEY_TOTAL = 0
    /\ INVALID_SIGNATURE_TOTAL = 0
    /\ BLOCK_NOT_FOUND_TOTAL = 0
    /\ touched = << >>
    /\ hist = NoHistTracking("recency")
    /\ got = [h \in SeqHandlers |-> NoGet]

DispatchRecency(h) ==
    /\ pc[h] = "idle"
    /\ \E r \in RecencyRequests : Dispatch(h, r)

NextRecency ==
    \/ \E b \in RecencyBids : RecvBlock(b)
    \/ \E h \in DOMAIN pc : DispatchRecency(h)
    \/ \E h \in DOMAIN pc : Decode(h)
    \/ \E h \in DOMAIN pc : ObserveRelayLatency(h)
    \/ \E h \in DOMAIN pc : CheckPubkey(h)
    \/ \E h \in DOMAIN pc : VerifySignature(h)
    \/ \E h \in DOMAIN pc : Lookup(h)
    \/ \E h \in DOMAIN pc : Encode(h)
    \/ \E h \in DOMAIN pc : MeteredReturn(h)

SpecRecency == InitRecency /\ [][NextRecency]_vars

(* ------------------ the cache lock, one step at a time ------------------ *)

\* The same program with the Mutex around the map made explicit: the task and
\* the handlers take the lock, work on the map and release it in separate
\* steps, and an insert writes its entry before it pops the oldest one.  Two
\* handlers serve JSON requests that reach the lookup; the stream neither lags
\* nor ends.

\* bid_stream.next().await yields Some(Ok(block)).
TaskRecv(b) ==
    /\ task_pc = "next"
    /\ bid_stream = "open"
    /\ task_block' = {b}
    /\ task_pc' = "lock"
    /\ UNCHANGED <<blocks, bid_stream, task_log, lock, pc, localVars, response,
                   metricVars, histVars>>

\* A task that does not wait for the Mutex: when it finds it taken it gives
\* the block up and goes back to the stream (try_lock).
TaskTryLock ==
    /\ task_pc = "lock"
    /\ IF lock = "free"
        THEN /\ lock' = "task"
             /\ task_pc' = "put"
             /\ UNCHANGED task_block
        ELSE /\ task_pc' = "next"
             /\ task_block' = {}
             /\ UNCHANGED lock
    /\ UNCHANGED <<blocks, bid_stream, task_log, pc, localVars, response,
                   metricVars, histVars>>


\* blocks.lock() in maintain_block_cache: waits until the Mutex is free.
TaskLock ==
    /\ task_pc = "lock"
    /\ lock = "free"
    /\ lock' = "task"
    /\ task_pc' = "put"
    /\ UNCHANGED <<blocks, bid_stream, task_log, task_block, pc, localVars, response,
                   metricVars, histVars>>

\* .insert(block_hash, block), first half.
TaskPut ==
    /\ task_pc = "put"
    /\ \E b \in task_block :
        blocks' = LruPut(blocks, OPTIMISTIC_V3_CACHE_SIZE_DEFAULT, b.block_hash, b)
    /\ task_pc' = "trim"
    /\ UNCHANGED <<bid_stream, task_log, task_block, lock, pc, localVars, response,
                   metricVars, histVars>>

\* An insert whose guard is kept across the next `bid_stream.next().await'.
TaskTrimKeepsLock ==
    /\ task_pc = "trim"
    /\ blocks' = LruTrim(blocks, OPTIMISTIC_V3_CACHE_SIZE_DEFAULT)
    /\ \E b \in task_block : touched' = Touch(touched, b.block_hash, Keys(blocks'))
    /\ lock' = "task"
    /\ task_block' = {}
    /\ task_pc' = "next"
    /\ UNCHANGED <<bid_stream, task_log, pc, localVars, response, metricVars, hist, got>>


\* .insert(block_hash, block), second half, and the guard dropped at the end
\* of the statement.
TaskTrim ==
    /\ task_pc = "trim"
    /\ blocks' = LruTrim(blocks, OPTIMISTIC_V3_CACHE_SIZE_DEFAULT)
    /\ \E b \in task_block : touched' = Touch(touched, b.block_hash, Keys(blocks'))
    /\ lock' = "free"
    /\ task_block' = {}
    /\ task_pc' = "next"
    /\ UNCHANGED <<bid_stream, task_log, pc, localVars, response, metricVars, hist, got>>

\* A lock that is taken without waiting for its holder.
LockCacheNoWait(h) ==
    /\ pc[h] = "lookup"
    /\ lock # h
    /\ lock' = h
    /\ UNCHANGED <<blocks, bid_stream, task_log, task_pc, task_block, pc, localVars,
                   response, metricVars, histVars>>

\* let mut blocks = self.blocks.lock(): waits until the Mutex is free.
LockCache(h) ==
    /\ pc[h] = "lookup"
    /\ lock = "free"
    /\ lock' = h
    /\ UNCHANGED <<blocks, bid_stream, task_log, task_pc, task_block, pc, localVars,
                   response, metricVars, histVars>>

\* A lookup that, holding the guard, waits until the task is not waiting.
LookupAfterTask(h) == lock = h /\ task_pc # "lock" /\ Lookup(h)


\* blocks.get(&block_hash).cloned() under the guard.
LookupLocked(h) == lock = h /\ Lookup(h)

\* The guard goes out of scope at the end of the block, or when `?' returns.
UnlockCache(h) ==
    /\ lock = h
    /\ pc[h] # "lookup"
    /\ lock' = "free"
    /\ UNCHANGED <<blocks, bid_stream, task_log, task_pc, task_block, pc, localVars,
                   response, metricVars, histVars>>

\* The steps of the handler after the block.
EncodeUnlocked(h) == lock # h /\ Encode(h)
MeteredReturnUnlocked(h) == lock # h /\ MeteredReturn(h)

NextLock ==
    \/ \E b \in RecencyBids : TaskRecv(b)
    \/ TaskLock
    \/ TaskPut
    \/ TaskTrim
    \/ \E h \in DOMAIN pc : DispatchRecency(h)
    \/ \E h \in DOMAIN pc : Decode(h)
    \/ \E h \in DOMAIN pc : ObserveRelayLatency(h)
    \/ \E h \in DOMAIN pc : CheckPubkey(h)
    \/ \E h \in DOMAIN pc : VerifySignature(h)
    \/ \E h \in DOMAIN pc : LockCache(h)
    \/ \E h \in DOMAIN pc : LookupLocked(h)
    \/ \E h \in DOMAIN pc : UnlockCache(h)
    \/ \E h \in DOMAIN pc : EncodeUnlocked(h)
    \/ \E h \in DOMAIN pc : MeteredReturnUnlocked(h)

SpecLock == InitSeq /\ [][NextLock]_vars

(* --------------------- the content type of a request -------------------- *)

\* Values of the Content-Type header in this setting: the two supported ones,
\* the JSON one in another case and with a charset parameter, another type.
GateContentTypes ==
    {"application/json", "application/octet-stream", "Application/JSON",
     "application/json; charset=utf-8", "text/plain"}

\* The bodies in this setting: the JSON and SSZ encodings of a request for hash
\* 1 by an authorized relay, genuinely signed.
GateBodies ==
    { b \in JsonBodies \cup SszBodies :
        \A q \in b.value :
            /\ q.message.block_hash = 1
            /\ PubkeyKnown(q.message.relay_public_key)
            /\ verify_signed_relay_request(q, domain) }

\* A request as the route sees it: the Content-Type header is there or is not.
GateRequests ==
    [content_type : {{}} \cup { {c} : c \in GateContentTypes }, bytes : GateBodies]

\* The route of spawn_server: warp::header::<String>("content-type") comes
\* first and rejects a request without that header (warp answers a missing
\* header with 400); the rest of the route is taken with the header's value.
DispatchRoute(h, q) ==
    IF q.content_type = {}
        THEN /\ pc[h] = "idle"
             /\ bytes' = [bytes EXCEPT ![h] = q.bytes]
             /\ response' = [response EXCEPT ![h] = ErrReply(400)]
             /\ pc' = [pc EXCEPT ![h] = "rejected"]
             /\ UNCHANGED <<histVars, cacheVars, content_type, is_json, request, block,
                            metricVars>>
        ELSE \E c \in q.content_type :
                Dispatch(h, [content_type |-> c, bytes |-> q.bytes])

NextGate ==
    \/ \E b \in SeqBids : RecvBlock(b)
    \/ \E h \in DOMAIN pc, q \in GateRequests : DispatchRoute(h, q)
    \/ \E h \in DOMAIN pc : Decode(h)
    \/ \E h \in DOMAIN pc : ObserveRelayLatency(h)
    \/ \E h \in DOMAIN pc : CheckPubkey(h)
    \/ \E h \in DOMAIN pc : VerifySignature(h)
    \/ \E h \in DOMAIN pc : Lookup(h)
    \/ \E h \in DOMAIN pc : Encode(h)
    \/ \E h \in DOMAIN pc : MeteredReturn(h)

SpecGate == Init /\ [][NextGate]_vars


(* ----------------- the retrieval path under fair scheduling ------------- *)

\* The requests in this setting: the JSON request for hash 1 that reaches the
\* lookup.
LiveRequests ==
    { r \in RecencyRequests : \A q \in r.bytes.value : q.message.block_hash = 1 }

DispatchLive(h) ==
    /\ pc[h] = "idle"
    /\ \E r \in LiveRequests : Dispatch(h, r)

\* The steps get_payload_v3_metered makes by itself: nothing in them awaits, so
\* a dispatched handler that can take one of them does.
HandlerFlow(h) ==
    \/ Decode(h)
    \/ ObserveRelayLatency(h)
    \/ CheckPubkey(h)
    \/ VerifySignature(h)
    \/ LookupLocked(h)
    \/ UnlockCache(h)
    \/ EncodeUnlocked(h)
    \/ MeteredReturnUnlocked(h)

\* The task holds the guard of line 208 for the insert only.
TaskFlow == TaskPut \/ TaskTrim

\* Two handlers and the task, one step at a time, over a stream that delivers
\* the same bid over and over, lags and ends.
NextLive ==
    \/ \E b \in SeqBids : TaskRecv(b)
    \/ \E lag \in Lags : RecvLagged(lag)
    \/ RecvClosed
    \/ TaskLock
    \/ TaskFlow
    \/ \E h \in DOMAIN pc : DispatchLive(h)
    \/ \E h \in DOMAIN pc : LockCache(h)
    \/ \E h \in DOMAIN pc : HandlerFlow(h)

\* Fair scheduling: a running handler and the task inside its insert go on
\* (weak fairness), and a handler that waits for the Mutex gets it even if the
\* Mutex is taken again and again by others (strong fairness: parking_lot
\* hands a contended Mutex over to the longest waiter eventually).  Nothing is
\* asked of the stream, of the arrival of requests or of the task's own wait
\* for the Mutex.
FairLive ==
    /\ \A h \in SeqHandlers : WF_vars(HandlerFlow(h))
    /\ \A h \in SeqHandlers : SF_vars(LockCache(h))
    /\ WF_vars(TaskFlow)

SpecLive == InitSeq /\ [][NextLive]_vars /\ FairLive


(* ------------------- the broadcast channel and the task ------------------ *)

\* The buffer of the broadcast channel behind bid_stream, scaled down.
OPTIMISTIC_V3_CHANNEL_SIZE == 2

\* The bids the producer publishes in this setting: the two blocks of hash 1.
IngestBids == { b \in Bids : b.block_hash = 1 }

\* The count of missed items the receiver reports is followed up to this value.
MaxMissed == 2

\* In this setting bid_stream is the receiving end of the channel: the items
\* published and not yet received (oldest first), the number of items
\* overwritten before they were received and not yet reported, and whether
\* every sender is gone.
InitIngest ==
    /\ blocks = << >>
    /\ bid_stream = [queue |-> << >>, missed |-> 0, closed |-> FALSE]
    /\ task_log = [event |-> "none", lag |-> 0]
    /\ task_pc = "next"
    /\ task_block = {}
    /\ lock = "free"
    /\ pc = [h \in Handlers |-> "idle"]
    /\ content_type = [h \in Handlers |-> ""]
    /\ bytes = [h \in Handlers |-> NoBytes]
    /\ is_json = [h \in Handlers |-> FALSE]
    /\ request = [h \in Handlers |-> {}]
    /\ block = [h \in Handlers |-> {}]
    /\ response = [h \in Handlers |-> NoResponse]
    /\ REQUESTS_TOTAL = 0
    /\ RELAY_REQUEST_LATENCY = 0
    /\ RESPONSE_LATENCY = 0
    /\ BAD_REQUESTS_TOTAL = 0
    /\ UNKNOWN_PUBKEY_TOTAL = 0
    /\ INVALID_SIGNATURE_TOTAL = 0
    /\ BLOCK_NOT_FOUND_TOTAL = 0
    /\ touched = << >>
    /\ hist = NoHist(FALSE)
    /\ got = [h \in Handlers |-> NoGet]

\* The producer sends a bid on the channel.  A send never waits: when the
\* buffer is full the oldest item not yet received is overwritten and the
\* receiver will be told that it lagged.
Publish(b) ==
    /\ ~bid_stream.closed
    /\ bid_stream' =
         IF Len(bid_stream.queue) < OPTIMISTIC_V3_CHANNEL_SIZE
             THEN [bid_stream EXCEPT !.queue = Append(@, b)]
             ELSE [bid_stream EXCEPT
                     !.queue = Append(Tail(@), b),
                     !.missed = IF @ < MaxMissed THEN @ + 1 ELSE MaxMissed]
    /\ UNCHANGED <<blocks, task_log, taskVars, pc, localVars, response, metricVars,
                   histVars>>

\* The last sender is dropped.
DropSenders ==
    /\ ~bid_stream.closed
    /\ bid_stream' = [bid_stream EXCEPT !.closed = TRUE]
    /\ UNCHANGED <<blocks, task_log, taskVars, pc, localVars, response, metricVars,
                   histVars>>

\* bid_stream.next().await resolves: to the count of the items missed if there
\* are any, else to the oldest item of the buffer, else, every sender being
\* gone, to None; it stays pending otherwise.
StreamNext ==
    /\ task_pc = "next"
    /\ IF bid_stream.missed > 0
        THEN /\ task_log' = [event |-> "lagging", lag |-> bid_stream.missed]
             /\ bid_stream' = [bid_stream EXCEPT !.missed = 0]
             /\ UNCHANGED <<task_pc, task_block>>
        ELSE IF bid_stream.queue # << >>
            THEN /\ task_block' = {Head(bid_stream.queue)}
                 /\ bid_stream' = [bid_stream EXCEPT !.queue = Tail(@)]
                 /\ task_pc' = "lock"
                 /\ UNCHANGED task_log
            ELSE /\ bid_stream.closed
                 /\ task_log' = [event |-> "closed", lag |-> 0]
                 /\ UNCHANGED <<bid_stream, task_pc, task_block>>
    /\ UNCHANGED <<blocks, lock, pc, localVars, response, metricVars, histVars>>

\* The producer, the task and one handler, one step at a time.
NextIngest ==
    \/ \E b \in IngestBids : Publish(b)
    \/ DropSenders
    \/ StreamNext
    \/ TaskLock
    \/ TaskFlow
    \/ \E h \in DOMAIN pc : DispatchLive(h)
    \/ \E h \in DOMAIN pc : LockCache(h)
    \/ \E h \in DOMAIN pc : HandlerFlow(h)

\* Fair scheduling: the task is polled when its stream has something for it,
\* it gets the Mutex it waits for even if a handler takes it in between, and
\* it and the handler go on when nothing holds them.  Nothing is asked of the
\* producer.
FairIngest ==
    /\ WF_vars(StreamNext)
    /\ SF_vars(TaskLock)
    /\ WF_vars(TaskFlow)
    /\ \A h \in Handlers : WF_vars(HandlerFlow(h))

SpecIngest == InitIngest /\ [][NextIngest]_vars /\ FairIngest


(* ------------------------------ properties ----------------------------- *)

N == OPTIMISTIC_V3_CACHE_SIZE_DEFAULT

\* The hashes of a map in the order the map keeps them.
KeyOrder(m) == [i \in DOMAIN m |-> m[i].key]

\* The last cache operation was an insert that found the cache full and its
\* hash absent.
LastInsertOverflowed ==
    /\ hist.last.op = "insert"
    /\ Len(hist.last.before) = N
    /\ hist.last.key \notin Keys(hist.last.before)

\* The hashes the last cache operation removed.
LastRemoved == Keys(hist.last.before) \ Keys(blocks)

\* C1: in every reachable state, whatever the interleaving of inserts by the
\* ingestion task and lookups by the handler, the cache holds at most N
\* entries, N being the capacity the map was created with.
CacheSizeBounded == Len(blocks) <= N

\* A full cache after an insert, a lookup that found its block and the
\* eviction of that block by later inserts.
CacheFullAfterEviction ==
    /\ Len(blocks) = N
    /\ \E h \in Handlers :
        /\ block[h] # {}
        /\ \A b \in block[h] : b.block_hash \notin Keys(blocks)

\* C2: from the empty cache, after N+1 inserts of pairwise distinct hashes
\* with no lookup in between, the first inserted hash is absent and the other
\* N are exactly the cached ones.
FirstInsertedEvicted ==
    (hist.clean /\ Len(hist.inserted) = N + 1)
        => /\ hist.inserted[1] \notin Keys(blocks)
           /\ Keys(blocks) = { hist.inserted[i] : i \in 2 .. (N + 1) }

\* N+1 distinct hashes have been inserted and nothing else has touched the cache.
InsertedOneMoreThanCapacity == hist.clean /\ Len(hist.inserted) = N + 1

\* C3: an insert removes an entry only if the cache held N entries and the
\* inserted hash was absent; it then removes exactly one entry, the one whose
\* last touch (insert or successful lookup) is the oldest; otherwise it
\* removes nothing.
InsertEvictsOnlyLru ==
    hist.last.op = "insert"
        => IF LastInsertOverflowed
               THEN LastRemoved = { Head(hist.last.older) }
               ELSE LastRemoved = {}

\* An insert has evicted an entry other than the one a handler had looked up
\* before, which is still cached.
EvictionAfterLookup ==
    /\ LastInsertOverflowed
    /\ \E h \in Handlers :
        /\ got[h].present
        /\ got[h].key \in Keys(hist.last.before)
        /\ got[h].key \in Keys(blocks)
        /\ Head(hist.last.older) # got[h].key

\* C4: when the last cache operation is a successful lookup of the hash that
\* was the oldest entry of a full cache, the next insert of a new hash keeps
\* that hash and evicts the entry that was second oldest before the lookup.
LookupRefreshesRecency ==
    [][\A b \in Bids :
        ( /\ hist.last.op = "get"
          /\ hist.last.hit
          /\ Len(hist.last.before) = N
          /\ Head(hist.last.older) = hist.last.key
          /\ b.block_hash \notin Keys(blocks)
          /\ RecvBlock(b) )
            => /\ hist.last.key \in Keys(blocks')
               /\ Keys(blocks) \ Keys(blocks') = { hist.last.older[2] }]_vars

\* A handler found the oldest entry of the cache, and the next cache operation
\* was an insert into the full cache that kept it.
LookedUpOldestSurvived ==
    /\ LastInsertOverflowed
    /\ \E h \in Handlers :
        /\ got[h].present
        /\ got[h].oldest
        /\ hist.last.older[Len(hist.last.older)] = got[h].key
        /\ got[h].key \in Keys(blocks)

\* C5: an insert under a hash already cached leaves one entry for that hash,
\* holding the new bid, as the most recently used entry; the cache keeps its
\* size and its other entries, also when it is full.
ReinsertOverwrites ==
    (hist.last.op = "insert" /\ hist.last.hit)
        => /\ Cardinality({ i \in DOMAIN blocks : blocks[i].key = hist.last.key }) = 1
           /\ \A i \in DOMAIN blocks :
                blocks[i].key = hist.last.key => { blocks[i].value } = hist.last.value
           /\ blocks[Len(blocks)].key = hist.last.key
           /\ KeyOrder(blocks) = touched
           /\ Len(blocks) = Len(hist.last.before)
           /\ \A i \in DOMAIN hist.last.before :
                hist.last.before[i].key # hist.last.key
                    => hist.last.before[i] \in Range(blocks)

\* The oldest entry of a full cache has been re-inserted with another bid.
OldestReinsertedInFullCache ==
    /\ hist.last.op = "insert"
    /\ hist.last.hit
    /\ Len(hist.last.before) = N
    /\ hist.last.before[1].key = hist.last.key
    /\ { hist.last.before[1].value } # hist.last.value

SupportedContentTypes == {"application/json", "application/octet-stream"}

\* C6: a decoded request whose relay public key is not an authorized one ends
\* in 401 and is counted once as an unknown pubkey (and in no other outcome
\* counter), whatever its signature and whether or not its hash is cached.
UnknownPubkeyUnauthorized ==
    \A h \in Handlers : \A r \in request[h] :
        (pc[h] = "done" /\ r.message.relay_public_key \notin relay_pubkeys)
            => /\ response[h] = ErrReply(401)
               /\ UNKNOWN_PUBKEY_TOTAL = 1
               /\ INVALID_SIGNATURE_TOTAL = 0
               /\ BLOCK_NOT_FOUND_TOTAL = 0

\* A request with an unknown key, a genuine signature and a cached hash has
\* been answered.
UnknownPubkeyValidSignatureCachedHash ==
    \E h \in Handlers : \E r \in request[h] :
        /\ pc[h] = "done"
        /\ r.message.relay_public_key \notin relay_pubkeys
        /\ r.signature = Sign(r.message.relay_public_key, r.message, domain)
        /\ r.message.block_hash \in Keys(blocks)
        /\ response[h].status = 401

\* C7: a decoded request with an authorized key whose signature does not
\* verify for its message under the configured domain ends in 401 and is
\* counted once as an invalid signature, whether or not its hash is cached.
InvalidSignatureUnauthorized ==
    \A h \in Handlers : \A r \in request[h] :
        ( /\ pc[h] = "done"
          /\ r.message.relay_public_key \in relay_pubkeys
          /\ ~verify_signed_relay_request(r, domain) )
            => /\ response[h] = ErrReply(401)
               /\ INVALID_SIGNATURE_TOTAL = 1
               /\ UNKNOWN_PUBKEY_TOTAL = 0
               /\ BLOCK_NOT_FOUND_TOTAL = 0

\* A request with an authorized key, a signature made under another domain and
\* a cached hash has been answered.
WrongDomainSignatureCachedHash ==
    \E h \in Handlers : \E r \in request[h] :
        /\ pc[h] = "done"
        /\ r.message.relay_public_key \in relay_pubkeys
        /\ r.signature = Sign(r.message.relay_public_key, r.message, "otherDomain")
        /\ r.message.block_hash \in Keys(blocks)
        /\ response[h].status = 401

\* C8, as stated: every request with an unsupported content type is answered
\* 400 and its body is never decoded, whatever the body and its length.
UnsupportedContentTypeAlways400 ==
    \A h \in Handlers :
        ( /\ pc[h] \in {"done", "rejected"}
          /\ content_type[h] \notin SupportedContentTypes )
            => /\ response[h].status = 400
               /\ request[h] = {}

\* C8, amended: a request with an unsupported content type is never decoded;
\* it is answered 400 by the handler and counted as a bad request when its body
\* is within the content length limit, and is turned away with 413 by the
\* route, the handler not being called, when its body is longer.
UnsupportedContentTypeWithinLimit400 ==
    \A h \in Handlers :
        ( /\ pc[h] \in {"done", "rejected"}
          /\ content_type[h] \notin SupportedContentTypes )
            => /\ request[h] = {}
               /\ IF bytes[h].len <= OPTIMISTIC_V3_SERVER_CONTENT_LENGTH_LIMIT
                      THEN /\ pc[h] = "done"
                           /\ response[h] = ErrReply(400)
                           /\ BAD_REQUESTS_TOTAL = 1
                      ELSE /\ pc[h] = "rejected"
                           /\ response[h] = ErrReply(413)
                           /\ BAD_REQUESTS_TOTAL = 0
                           /\ REQUESTS_TOTAL = 0

\* A request with an unsupported content type whose body is a well-formed,
\* genuinely signed JSON request from an authorized relay has been answered 400.
UnsupportedContentTypeGoodBody ==
    \E h \in Handlers : \E r \in bytes[h].value :
        /\ pc[h] = "done"
        /\ content_type[h] \notin SupportedContentTypes
        /\ bytes[h].enc = "json"
        /\ r.message.relay_public_key \in relay_pubkeys
        /\ r.signature = Sign(r.message.relay_public_key, r.message, domain)
        /\ response[h].status = 400

\* C9: a request that reaches the lookup for a hash that is not cached at that
\* time, because it was never inserted or because it was inserted and evicted
\* since, ends in 404 and is counted once as block not found.
MissIsNotFound ==
    \A h \in Handlers :
        ( /\ pc[h] = "done"
          /\ got[h].done
          /\ (got[h].latest = {} \/ ~got[h].present) )
            => /\ response[h] = ErrReply(404)
               /\ BLOCK_NOT_FOUND_TOTAL = 1

\* A request for a hash that had been inserted and evicted has been answered.
EvictedHashRequested ==
    \E h \in Handlers :
        /\ pc[h] = "done"
        /\ got[h].done
        /\ got[h].latest # {}
        /\ ~got[h].present
        /\ response[h].status = 404

EncodingOf(ctype) == IF ctype = "application/json" THEN "json" ELSE "ssz"

HandlerStatuses == {200, 400, 401, 404, 500}

\* The body the handler received is well formed in the encoding its content
\* type selects.
BodyDecodable(h) ==
    /\ content_type[h] \in SupportedContentTypes
    /\ bytes[h].enc = EncodingOf(content_type[h])
    /\ bytes[h].value # {}

\* The status the first failing step of the request of handler h calls for.
FirstFailingStepStatus(h) ==
    IF ~BodyDecodable(h)
        THEN 400
        ELSE LET r == CHOOSE q \in bytes[h].value : TRUE IN
             IF r.message.relay_public_key \notin relay_pubkeys
                 THEN 401
                 ELSE IF r.signature # Sign(r.message.relay_public_key, r.message, domain)
                     THEN 401
                     ELSE IF ~got[h].present THEN 404 ELSE 200

OutcomeCounters ==
    <<BAD_REQUESTS_TOTAL, UNKNOWN_PUBKEY_TOTAL, INVALID_SIGNATURE_TOTAL,
      BLOCK_NOT_FOUND_TOTAL>>

OutcomeCount ==
    BAD_REQUESTS_TOTAL + UNKNOWN_PUBKEY_TOTAL + INVALID_SIGNATURE_TOTAL
        + BLOCK_NOT_FOUND_TOTAL

SignatureVerificationReached == {"signature", "lookup", "encode"}

\* C14: the signature of a request is verified only after its key was found
\* in the authorized set: a request with an unknown key never reaches the
\* signature verification, and one with an unknown key and an invalid
\* signature is counted as unknown pubkey and never as invalid signature.
PubkeyCheckedBeforeSignature ==
    \A h \in Handlers : \A r \in request[h] :
        r.message.relay_public_key \notin relay_pubkeys
            => /\ pc[h] \notin SignatureVerificationReached
               /\ INVALID_SIGNATURE_TOTAL = 0
               /\ pc[h] = "done"
                    => /\ UNKNOWN_PUBKEY_TOTAL = 1
                       /\ response[h] = ErrReply(401)

\* A request with an unknown key and a signature that does not verify (made
\* under another domain) has been answered.
UnknownPubkeyInvalidSignatureAnswered ==
    \E h \in Handlers : \E r \in request[h] :
        /\ pc[h] = "done"
        /\ r.message.relay_public_key \notin relay_pubkeys
        /\ r.signature = Sign(r.message.relay_public_key, r.message, "otherDomain")
        /\ UNKNOWN_PUBKEY_TOTAL = 1

\* Handler h takes a step other than its lookup.
StepOutsideLookup(h) == pc[h] # "lookup" /\ pc'[h] # pc[h]

\* C15: a request rejected with 400 or 401 has made no cache lookup, and no
\* step of a handler other than its lookup step, the only one made under the
\* cache lock, changes the entries of the cache or their recency order.
RejectedBeforeLookupLeavesCache ==
    /\ [](\A h \in Handlers :
            (pc[h] \in {"observe", "done"} /\ response[h].status \in {400, 401})
                => ~got[h].done /\ block[h] = {})
    /\ [][\A h \in Handlers :
            StepOutsideLookup(h) => blocks' = blocks /\ touched' = touched]_vars

\* A request with an unknown key for the least recently used hash of a full
\* cache has been rejected, and that hash is still the next to be evicted.
RejectedRequestForOldestEntry ==
    \E h \in Handlers : \E r \in request[h] :
        /\ pc[h] = "done"
        /\ response[h].status = 401
        /\ r.message.relay_public_key \notin relay_pubkeys
        /\ Len(blocks) = N
        /\ blocks[1].key = r.message.block_hash
        /\ Head(touched) = r.message.block_hash

\* The handler invocations made so far, and those that have returned.
Invocations == { h \in DOMAIN pc : pc[h] \notin {"idle", "rejected"} }
Returned == { h \in DOMAIN pc : pc[h] = "done" }

LagStep == hist'.item.kind = "lagged" /\ hist'.item # hist.item

\* The last item of the stream was a bid, delivered after a lag notification,
\* and no lookup has touched the cache since.
InsertedAfterLag ==
    /\ task_log.event = "lagging"
    /\ hist.item.kind = "block"
    /\ hist.last.op = "insert"

\* C16: when the stream yields a lag notification the task logs its count and
\* goes on waiting on the open stream, the step leaving the cache and its
\* recency order as they were; a bid delivered after it is inserted under its
\* block hash as any insert is; and the cache only ever holds bids the stream
\* delivered, each the latest under its hash (nothing dropped is fetched again).
LagIsLoggedAndSkipped ==
    /\ [](hist.item.kind = "lagged"
            => /\ task_log = [event |-> "lagging", lag |-> hist.item.lag]
               /\ task_pc = "next"
               /\ bid_stream = "open")
    /\ [][LagStep => blocks' = blocks /\ touched' = touched]_vars
    /\ [](InsertedAfterLag
            => /\ LruGet(blocks, hist.last.key) = hist.last.value
               /\ blocks = LruInsert(hist.last.before, N, hist.last.key,
                                     CHOOSE b \in hist.last.value : TRUE))
    /\ [](\A i \in DOMAIN blocks : hist.latest[blocks[i].key] = {blocks[i].value})

\* After a notification of three dropped items, a bid for a new hash has been
\* inserted into a full cache.
BidInsertedAfterLagOfThree ==
    /\ InsertedAfterLag
    /\ task_log.lag = 3
    /\ Len(hist.last.before) = N
    /\ ~hist.last.hit
    /\ hist.last.key \in Keys(blocks)

\* C17: once the stream has ended the task has logged it and is still in its
\* loop, polling the stream again (in no reachable state has it returned); the
\* stream stays ended, and from then on the entries of the cache stay the same,
\* the only change left being the reordering made by a handler's lookup.
ClosedStreamLeavesTaskLooping ==
    /\ [](task_pc = "next")
    /\ [](bid_stream = "closed"
            => task_log = [event |-> "closed", lag |-> 0] /\ ENABLED RecvClosed)
    /\ [][bid_stream' = "closed" /\ bid_stream = "open" => blocks' = blocks]_vars
    /\ [][bid_stream = "closed"
            => /\ bid_stream' = "closed"
               /\ Range(blocks') = Range(blocks)
               /\ blocks' # blocks
                    => \E h \in Handlers : pc[h] = "lookup" /\ pc'[h] # "lookup"]_vars

\* The stream has ended, the task is still in its loop, the cache is full and
\* a handler has found its block in it, the lookup having promoted the entry.
StreamClosedOnFullCache ==
    /\ bid_stream = "closed"
    /\ task_log.event = "closed"
    /\ task_pc = "next"
    /\ Len(blocks) = N
    /\ \E h \in Handlers : \E r \in request[h] :
        /\ pc[h] = "encode"
        /\ blocks[N].key = r.message.block_hash
        /\ touched[1] # r.message.block_hash

\* The next step of handler h inside get_payload_v3_metered.
HandlerStep(h) ==
    \/ Decode(h)
    \/ ObserveRelayLatency(h)
    \/ CheckPubkey(h)
    \/ VerifySignature(h)
    \/ Lookup(h)
    \/ Encode(h)
    \/ MeteredReturn(h)

InFlight == {"decode", "latency", "pubkey", "signature", "lookup", "encode", "observe"}

InsertInProgress == task_pc \in {"put", "trim"}

\* C19: lookups and inserts are ordered by the lock.  A handler holds the lock
\* only while the task is outside its insert and no other handler holds it, so
\* that its lookup sees the map as it was before or after each insert (at most
\* N entries, never the entry of an insert in progress); the lookup is made
\* without waiting for anything but the lock; and a request whose lookup did
\* not find its hash ends in 404, also when the bid for that hash is already
\* waiting to be inserted or is inserted afterwards.
LookupsAndInsertsLinearized ==
    /\ [](\A h \in DOMAIN pc :
            lock = h
                => /\ ~InsertInProgress
                   /\ Len(blocks) <= N
                   /\ pc[h] = "lookup" => ENABLED LookupLocked(h))
    /\ [][\A h \in DOMAIN pc :
            (pc[h] = "lookup" /\ pc'[h] # "lookup")
                => lock = h /\ ~InsertInProgress]_vars
    /\ [](\A h \in DOMAIN pc :
            (pc[h] \in {"observe", "done"} /\ got[h].done /\ ~got[h].present)
                => response[h] = ErrReply(404))
    /\ [](\A h \in DOMAIN pc :
            (pc[h] = "done" /\ got[h].present) => response[h].status = 200)

\* A handler has looked its hash up and missed it while the task, holding the
\* bid for that very hash, waits for the lock; the request then ends in 404.
LookupBeforePendingInsert ==
    \E h \in DOMAIN pc : \E b \in task_block :
        /\ pc[h] = "observe"
        /\ lock = h
        /\ got[h].done
        /\ ~got[h].present
        /\ task_pc = "lock"
        /\ b.block_hash = got[h].key
        /\ response[h].status = 404


\* C22: a request whose body is longer than the content length limit is
\* turned away by the route: the handler is not invoked (nothing decoded, no
\* lookup), no counter or histogram moves, and the step leaves the cache and
\* its recency order as they were; a request whose body has exactly the
\* limit's length is passed to the handler.
OversizedBodyRejectedByRoute ==
    /\ [](\A h \in Handlers :
            /\ (pc[h] # "idle"
                  /\ bytes[h].len > OPTIMISTIC_V3_SERVER_CONTENT_LENGTH_LIMIT)
                 => /\ pc[h] = "rejected"
                    /\ response[h].status \notin HandlerStatuses
                    /\ response[h].body = {}
                    /\ request[h] = {}
                    /\ ~got[h].done
                    /\ metricVars = <<0, 0, 0, 0, 0, 0, 0>>
            /\ (pc[h] # "idle"
                  /\ bytes[h].len = OPTIMISTIC_V3_SERVER_CONTENT_LENGTH_LIMIT)
                 => pc[h] # "rejected" /\ REQUESTS_TOTAL = 1)
    /\ [][\A h \in Handlers :
            (pc[h] = "idle" /\ pc'[h] = "rejected")
                => blocks' = blocks /\ touched' = touched]_vars

\* A well-formed, genuinely signed JSON request from an authorized relay for a
\* cached hash, one byte over the limit, has been turned away.
OversizedValidRequestRejected ==
    \E h \in Handlers : \E r \in bytes[h].value :
        /\ pc[h] = "rejected"
        /\ content_type[h] = "application/json"
        /\ bytes[h].enc = "json"
        /\ bytes[h].len = OPTIMISTIC_V3_SERVER_CONTENT_LENGTH_LIMIT + 1
        /\ r.message.relay_public_key \in relay_pubkeys
        /\ r.signature = Sign(r.message.relay_public_key, r.message, domain)
        /\ r.message.block_hash \in Keys(blocks)
        /\ REQUESTS_TOTAL = 0


\* The positions of a handler after the relay latency step.
PastLatencyStep == {"pubkey", "signature", "lookup", "encode", "observe", "done"}

\* C23: the timestamp of a request only feeds the relay latency histogram.  A
\* decoded request has one observation recorded if its timestamp is not later
\* than the receive time and none if it is, whatever the request ends in; a
\* request that could not be decoded has none; and the status of a request is
\* the one its content type, body, key, signature and hash call for, the
\* timestamp playing no part.
TimestampOnlyMonitored ==
    \A h \in Handlers :
        /\ request[h] = {} => RELAY_REQUEST_LATENCY = 0
        /\ \A r \in request[h] :
            /\ pc[h] = "latency" => RELAY_REQUEST_LATENCY = 0
            /\ pc[h] \in PastLatencyStep
                 => RELAY_REQUEST_LATENCY =
                      IF r.message.request_ts <= NowMs THEN 1 ELSE 0
            /\ pc[h] = "done"
                 => /\ response[h].status = FirstFailingStepStatus(h)
                    /\ r.message.relay_public_key \in relay_pubkeys
                         /\ r.signature = Sign(r.message.relay_public_key,
                                               r.message, domain)
                         => response[h].status \in {200, 404}

\* A request issued in the future has been served its block, no relay latency
\* having been observed.
FutureRequestServed ==
    \E h \in Handlers : \E r \in request[h] :
        /\ pc[h] = "done"
        /\ r.message.request_ts > NowMs
        /\ response[h].status = 200
        /\ RELAY_REQUEST_LATENCY = 0


\* C25: a request with a supported content type whose body does not parse in
\* the encoding that content type selects ends in 400, counted once as a bad
\* request, and none of the later steps runs: no relay latency observation,
\* no key check, no signature verification, no lookup.  A body that is a valid
\* request in the other encoding is rejected like any other.
UndecodableBodyIsBadRequest ==
    \A h \in Handlers :
        ( /\ pc[h] \notin {"idle", "rejected", "decode"}
          /\ content_type[h] \in SupportedContentTypes
          /\ bytes[h].enc # EncodingOf(content_type[h]) )
            => /\ pc[h] \in {"observe", "done"}
               /\ response[h] = ErrReply(400)
               /\ BAD_REQUESTS_TOTAL = 1
               /\ RELAY_REQUEST_LATENCY = 0
               /\ UNKNOWN_PUBKEY_TOTAL = 0
               /\ INVALID_SIGNATURE_TOTAL = 0
               /\ BLOCK_NOT_FOUND_TOTAL = 0
               /\ request[h] = {}
               /\ block[h] = {}
               /\ ~got[h].done

\* The SSZ encoding of a request with an authorized key, a genuine signature
\* and a cached hash, sent as application/json, has been rejected.
SszBodySentAsJsonRejected ==
    \E h \in Handlers : \E r \in bytes[h].value :
        /\ pc[h] = "done"
        /\ content_type[h] = "application/json"
        /\ bytes[h].enc = "ssz"
        /\ r.message.relay_public_key \in relay_pubkeys
        /\ r.signature = Sign(r.message.relay_public_key, r.message, domain)
        /\ r.message.block_hash \in Keys(blocks)
        /\ response[h].status = 400


\* The entries of map m other than the one of hash k, in their order.
EntriesBut(m, k) == SelectSeq(m, LAMBDA e : e.key # k)

\* C27: a handler never adds, removes or replaces an entry of the cache.  No
\* step of a handler changes the set of entries; the step of a lookup that
\* finds its hash moves that entry to the most recently used position and
\* leaves the others in their order; the step of a lookup that misses, like
\* every step other than a lookup, leaves the entries and their recency order
\* as they were.
HandlerOnlyPromotes ==
    [][\A h \in Handlers :
        pc'[h] # pc[h]
            => /\ Range(blocks') = Range(blocks)
               /\ Len(blocks') = Len(blocks)
               /\ (pc[h] = "lookup" /\ pc'[h] = "encode")
                    => /\ blocks'[Len(blocks')].key = got'[h].key
                       /\ block'[h] = { blocks'[Len(blocks')].value }
                       /\ EntriesBut(blocks', got'[h].key) = EntriesBut(blocks, got'[h].key)
               /\ ~(pc[h] = "lookup" /\ pc'[h] = "encode")
                    => blocks' = blocks /\ touched' = touched
               /\ (pc[h] = "lookup" /\ pc'[h] = "observe")
                    => /\ response'[h].status = 404
                       /\ got'[h].key \notin Keys(blocks)]_vars

\* The last cache operation was a lookup that found the least recently used
\* entry of a full cache and made it the most recently used one.
LookupPromotedOldestOfFullCache ==
    /\ hist.last.op = "get"
    /\ hist.last.hit
    /\ Len(hist.last.before) = OPTIMISTIC_V3_CACHE_SIZE_DEFAULT
    /\ hist.last.before[1].key = hist.last.key
    /\ blocks[Len(blocks)].key = hist.last.key
    /\ blocks # hist.last.before
    /\ Range(blocks) = Range(hist.last.before)


\* C29: every entry of the cache is stored under the block hash of the bid
\* trace of its own block, no two entries share a hash, and a payload returned
\* for a requested hash is a block whose bid trace declares that hash.
EntriesKeyedByOwnHash ==
    /\ \A i \in DOMAIN blocks : blocks[i].key = blocks[i].value.block_hash
    /\ \A i, j \in DOMAIN blocks : blocks[i].key = blocks[j].key => i = j
    /\ \A h \in Handlers :
        /\ \A b \in block[h] : \A r \in request[h] :
              b.block_hash = r.message.block_hash
        /\ response[h].status = 200
             => /\ response[h].body # {}
                /\ \A e \in response[h].body : \A r \in request[h] :
                     e.value.block_hash = r.message.block_hash

\* The cache is full, one of its entries holds a resubmitted block, and a
\* request for the hash of that block has been answered with it.
ResubmittedBlockServedFromFullCache ==
    /\ Len(blocks) = OPTIMISTIC_V3_CACHE_SIZE_DEFAULT
    /\ \E h \in Handlers : \E r \in request[h] : \E e \in response[h].body :
        /\ pc[h] = "done"
        /\ response[h].status = 200
        /\ e.value.payload = "p2"
        /\ e.value.block_hash = r.message.block_hash
        /\ \E i \in DOMAIN blocks : blocks[i].value = e.value


\* The request of handler h has an authorized key and a genuine signature.
ValidlySigned(h) ==
    \E r \in request[h] :
        /\ r.message.relay_public_key \in relay_pubkeys
        /\ r.signature = Sign(r.message.relay_public_key, r.message, domain)

LockHeldOnlyAroundMapOperation ==
    /\ [](/\ lock \in {"free", "task"} \cup DOMAIN pc
          /\ (lock = "task") <=> (task_pc \in {"put", "trim"})
          /\ task_pc \in {"next", "lock"} => lock # "task"
          /\ \A h \in DOMAIN pc :
                lock = h
                    => /\ pc[h] \in {"lookup", "encode", "observe"}
                       /\ task_pc \notin {"put", "trim"}
                       /\ got[h].done <=> pc[h] # "lookup"
                       /\ pc[h] # "lookup" => ENABLED UnlockCache(h))
    /\ [][\A h \in DOMAIN pc :
            /\ (lock # h /\ lock' = h) => (lock = "free" /\ pc[h] = "lookup")
            /\ (pc'[h] # pc[h])
                 => IF pc[h] = "lookup"
                        THEN lock = h /\ lock' = h
                        ELSE lock # h /\ lock' # h
            /\ (lock = h /\ blocks' # blocks) => pc[h] = "lookup"]_vars
    /\ [][blocks' # blocks
            => \/ lock = "task" /\ task_pc \in {"put", "trim"}
               \/ \E h \in DOMAIN pc : lock = h /\ pc[h] = "lookup"]_vars

\* One handler holds the lock for its lookup while the other handler and the
\* task, which has taken a bid off the stream, both wait for it.
LockContended ==
    \E h, g \in DOMAIN pc :
        /\ h # g
        /\ lock = h
        /\ pc[h] = "lookup"
        /\ pc[g] = "lookup"
        /\ task_pc = "lock"
        /\ task_block # {}


\* The request of handler h came without a Content-Type header.
ContentTypeAbsent(h) ==
    pc[h] = "rejected" /\ content_type[h] \notin GateContentTypes

\* C26, as stated: every request whose content type is not one of the two
\* supported values, or that declares none, is answered 400 and counted as a
\* bad request.
UnsupportedContentTypeCounted ==
    \A h \in Handlers :
        ( /\ pc[h] \in {"done", "rejected"}
          /\ content_type[h] \notin SupportedContentTypes )
            => /\ response[h].status = 400
               /\ BAD_REQUESTS_TOTAL = 1

\* C26, amended: the content type is matched exactly.  A request whose
\* Content-Type header has any value other than the two supported ones (the
\* JSON one in another case or with a charset parameter included) and whose
\* body is within the content length limit is answered 400 by the handler and
\* counted once as a bad request, its body not decoded; with a longer body it
\* is turned away with 413 by the route and not counted.  A request without a
\* Content-Type header is answered 400 by the route: the handler is not called
\* and no counter moves.
UnsupportedContentTypeExactMatch ==
    \A h \in Handlers :
        ( /\ pc[h] \in {"done", "rejected"}
          /\ content_type[h] \notin SupportedContentTypes )
            => /\ request[h] = {}
               /\ ~got[h].done
               /\ IF ContentTypeAbsent(h)
                      THEN /\ response[h] = ErrReply(400)
                           /\ metricVars = <<0, 0, 0, 0, 0, 0, 0>>
                      ELSE IF bytes[h].len <= OPTIMISTIC_V3_SERVER_CONTENT_LENGTH_LIMIT
                          THEN /\ pc[h] = "done"
                               /\ response[h] = ErrReply(400)
                               /\ metricVars = <<1, 0, 1, 1, 0, 0, 0>>
                          ELSE /\ pc[h] = "rejected"
                               /\ response[h] = ErrReply(413)
                               /\ metricVars = <<0, 0, 0, 0, 0, 0, 0>>

\* A well-formed JSON request for a cached hash, sent as
\* "application/json; charset=utf-8", has been answered 400.
JsonWithCharsetRejected ==
    \E h \in Handlers :
        /\ pc[h] = "done"
        /\ content_type[h] = "application/json; charset=utf-8"
        /\ bytes[h].enc = "json"
        /\ bytes[h].value # {}
        /\ 1 \in Keys(blocks)
        /\ response[h].status = 400
        /\ BAD_REQUESTS_TOTAL = 1


\* Somebody waits for the cache lock.
LockAwaited ==
    \/ task_pc = "lock"
    \/ \E h \in DOMAIN pc : pc[h] = "lookup" /\ lock # h

\* Whoever holds the cache lock can take its next step, and a free lock can be
\* taken by whoever waits for it.
LockHolderCanStep ==
    /\ lock = "task" => ENABLED TaskFlow
    /\ \A g \in DOMAIN pc : lock = g => ENABLED (LookupLocked(g) \/ UnlockCache(g))
    /\ lock = "free"
         => /\ task_pc = "lock" => ENABLED TaskLock
            /\ \A h \in DOMAIN pc : pc[h] = "lookup" => ENABLED LockCache(h)

\* C21: the retrieval path is always available.  Under fair scheduling every
\* dispatched request ends with a status of the handler, with two handlers at
\* once, while the task inserts again and again and after the stream has
\* ended; and in no reachable state is the cache lock awaited while its holder
\* cannot step.
RetrievalAlwaysAvailable ==
    /\ [](LockAwaited => LockHolderCanStep)
    /\ \A h \in SeqHandlers :
        (pc[h] # "idle")
            ~> (pc[h] = "done" /\ response[h].status \in {200, 404})

\* The stream has ended, one handler has answered with the block and the
\* other one holds the lock for its lookup.
AnsweredAfterStreamEnd ==
    \E h, g \in DOMAIN pc :
        /\ h # g
        /\ pc[h] = "done"
        /\ response[h].status = 200
        /\ lock = g
        /\ pc[g] = "lookup"
        /\ bid_stream = "closed"
        /\ task_log.event = "closed"


\* The most recently used entry of the cache is block b under its own hash.
InsertedLast(m, b) ==
    /\ m # << >>
    /\ m[Len(m)] = [key |-> b.block_hash, value |-> b]

\* C28: every bid the stream delivers to the task is inserted into the cache
\* under its block hash, in the order of delivery.  The task takes the oldest
\* item of the stream, and only when it holds no bid; a bid leaves the task
\* only by being inserted as the most recently used entry under its hash; under
\* fair scheduling a bid the task holds is eventually inserted; and the
\* producer is never held back: as long as it has not gone away it can publish
\* any bid in every reachable state, and publishing changes the stream only.
DeliveredBidsInsertedInOrder ==
    /\ [][(task_block' # task_block /\ task_block' # {})
            => /\ task_block = {}
               /\ bid_stream.queue # << >>
               /\ task_block' = {Head(bid_stream.queue)}
               /\ bid_stream'.queue = Tail(bid_stream.queue)]_vars
    /\ [][(task_block # {} /\ task_block' # task_block)
            => /\ task_block' = {}
               /\ \A b \in task_block : InsertedLast(blocks', b)]_vars
    /\ [](~bid_stream.closed => \A b \in IngestBids : ENABLED Publish(b))
    /\ [][bid_stream'.queue # bid_stream.queue
            => \/ blocks' = blocks /\ lock' = lock /\ task_pc' = task_pc
               \/ task_pc = "next"]_vars
    /\ \A b \in IngestBids :
        (task_block = {b}) ~> (task_block = {} /\ InsertedLast(blocks, b))

\* The resubmitted block of hash 1 has been inserted over the first one while
\* the buffer of the channel is full again and the handler holds the lock.
ResubmissionInsertedWhileChannelFull ==
    /\ task_pc = "next"
    /\ task_block = {}
    /\ \E i \in DOMAIN blocks : blocks[i].value.payload = "p2"
    /\ Len(bid_stream.queue) = OPTIMISTIC_V3_CHANNEL_SIZE
    /\ \E h \in DOMAIN pc : lock = h

====
